---- MODULE Spec2Model ----
(***************************************************************************)
(* A model of docassemble.ALDocument.al_document: ALAddendumField,         *)
(* ALAddendumFieldDict, ALDocument and ALDocumentBundle.                   *)
(*                                                                         *)
(* Python values are records [kind, data]: kind "str" (data = characters), *)
(* "list" (data = elements), "unset" (no value in the interview store),    *)
(* "none" (Python None) and "error" (data = <<exception name>>).           *)
(* Calls that return a Python list return [exc, items]: exc = "" when the  *)
(* call returned, otherwise the name of the exception that left it.        *)
(*                                                                         *)
(* store            the interview's variables, by name                     *)
(* has_addendum     ALDocument.has_addendum, by document                   *)
(* overflow_fields  ALDocument.overflow_fields, by document                *)
(* enabled          ALDocument.enabled, by document                        *)
(* children         the elements of each ALDocumentBundle                  *)
(* lastCall         the last call made on a document's fields: the method, *)
(*                  the key it was about, whether that key was registered  *)
(*                  when the call began, and what the call returned        *)
(* stack            the activations of a running as_flat_list              *)
(* flat             the bundle and key of the last as_flat_list call and,  *)
(*                  once it has ended, its outcome                         *)
(***************************************************************************)
EXTENDS Integers, Sequences, FiniteSets, TLC

VARIABLES store, has_addendum, overflow_fields, enabled, children, lastCall, stack, flat

vars == <<store, has_addendum, overflow_fields, enabled, children, lastCall, stack, flat>>

-----------------------------------------------------------------------------
(* Bounds and the values drawn from them: MaxLen bounds the length of a    *)
(* variable's value, MaxAppends the elements appended to bundles, MaxDepth *)
(* the activations an as_flat_list that descended into bundles could open. *)

MaxLen == 2

MaxAppends == 2

MaxDepth == 3

Names == {"name", "notes"}

Docs == {"d1", "d2"}

Bundles == {"b1", "b2", "b3"}

Keys == {"final", "preview"}

SetupDocs == {"d1"}

Triggers == {1, 2, 5}

Alexandria == <<"A", "l", "e", "x", "a", "n", "d", "r", "i", "a">>

Ellipsis == <<"...">>

RECURSIVE SeqsUpTo(_, _)
SeqsUpTo(S, n) == IF n = 0 THEN {<<>>} ELSE LET T == SeqsUpTo(S, n - 1) IN T \cup {Append(t, x) : t \in {u \in T : Len(u) = n - 1}, x \in S}

Str(s) == [kind |-> "str", data |-> s]

Lst(s) == [kind |-> "list", data |-> s]

Unset == [kind |-> "unset", data |-> <<>>]

None == [kind |-> "none", data |-> <<>>]

Error(e) == [kind |-> "error", data |-> <<e>>]

IsError(v) == v.kind = "error"

NoFlat == [bundle |-> "", key |-> "", exc |-> "", items |-> <<>>]

Ok(s) == [exc |-> "", items |-> s]

Raise(e) == [exc |-> e, items |-> <<>>]

Strings == {Str(s) : s \in SeqsUpTo({"a", "b"}, MaxLen)} \cup {Str(Alexandria)}

Lists == {Lst(s) : s \in SeqsUpTo({"r", "s"}, MaxLen)}

VarValues(n) == IF n = "name" THEN Strings ELSE Lists

Markers == {None, Str(Ellipsis)}

-----------------------------------------------------------------------------
(* docassemble.base.util: the interview store *)

defined(name) == store[name].kind # "unset"

value(name) == store[name]

(* Python: len(v), v[:n], v[n:], a + b on str and list values *)
len(v) == Len(v.data)

SliceTo(v, n) == [kind |-> v.kind, data |-> SubSeq(v.data, 1, IF n < Len(v.data) THEN n ELSE Len(v.data))]

SliceFrom(v, n) == [kind |-> v.kind, data |-> SubSeq(v.data, n + 1, Len(v.data))]

Concat(a, b) == [kind |-> a.kind, data |-> a.data \o b.data]

-----------------------------------------------------------------------------
(* ALAddendumField: a record [field_name, overflow_trigger];               *)
(* overflow_trigger = NoTrigger when the attribute was never set.          *)

NoTrigger == 0

HasTrigger(field) == field.overflow_trigger # NoTrigger

value_if_defined(field) == IF defined(field.field_name) THEN value(field.field_name) ELSE Str(<<>>)

overflow_value_off_by_one(field) ==
  IF ~HasTrigger(field) THEN Error("AttributeError")
  ELSE IF len(value_if_defined(field)) > field.overflow_trigger
       THEN SliceFrom(value_if_defined(field), field.overflow_trigger + 1)
       ELSE Str(<<>>)

overflow_value(field) ==
  IF ~HasTrigger(field) THEN Error("AttributeError")
  ELSE IF len(value_if_defined(field)) > field.overflow_trigger
       THEN SliceFrom(value_if_defined(field), field.overflow_trigger)
       ELSE Str(<<>>)

full_value(field) == value_if_defined(field)

safe_value_marks_every_value(field, overflow_message) ==
  IF ~HasTrigger(field) THEN Error("AttributeError")
  ELSE IF value_if_defined(field).kind = "str"
       THEN Concat(SliceTo(value_if_defined(field), field.overflow_trigger), overflow_message)
       ELSE SliceTo(value_if_defined(field), field.overflow_trigger)

safe_value_one_short(field, overflow_message) ==
  IF ~HasTrigger(field) THEN Error("AttributeError")
  ELSE IF len(value_if_defined(field)) > field.overflow_trigger
       THEN IF value_if_defined(field).kind = "str"
            THEN Concat(SliceTo(value_if_defined(field), field.overflow_trigger - 1), overflow_message)
            ELSE SliceTo(value_if_defined(field), field.overflow_trigger - 1)
       ELSE value_if_defined(field)

safe_value(field, overflow_message) ==
  IF ~HasTrigger(field) THEN Error("AttributeError")
  ELSE IF len(value_if_defined(field)) > field.overflow_trigger
       THEN IF value_if_defined(field).kind = "str"
            THEN Concat(SliceTo(value_if_defined(field), field.overflow_trigger), overflow_message)
            ELSE SliceTo(value_if_defined(field), field.overflow_trigger)
       ELSE value_if_defined(field)

-----------------------------------------------------------------------------
(* ALAddendumFieldDict (a DAOrderedDict): a sequence, in insertion order,  *)
(* of entries [key, obj], obj an ALAddendumField.                          *)

HasKey(c, k) == \E i \in 1..Len(c) : c[i].key = k

IndexOf(c, k) == CHOOSE i \in 1..Len(c) : c[i].key = k

GetItem(c, k) == c[IndexOf(c, k)].obj

(* elements[k] = obj on an ordered dict: an existing key keeps its place *)
SetItem(c, k, obj) == IF HasKey(c, k) THEN [c EXCEPT ![IndexOf(c, k)] = [key |-> k, obj |-> obj]] ELSE Append(c, [key |-> k, obj |-> obj])

ObjectsOf(c) == [i \in 1..Len(c) |-> c[i].obj]

KeysOf(c) == [i \in 1..Len(c) |-> c[i].key]

(* DADict.initializeObject, reached through super(): a new object of the   *)
(* object type is stored under the key, replacing whatever was there.      *)
BlankField == [field_name |-> "", overflow_trigger |-> NoTrigger]

super_initializeObject(c, the_key) == SetItem(c, the_key, BlankField)

(* self[the_key].field_name = the_key *)
StampFieldName(c, the_key) == SetItem(c, the_key, [GetItem(c, the_key) EXCEPT !.field_name = the_key])

initializeObject_keeps_existing(c, the_key) == IF HasKey(c, the_key) THEN c ELSE StampFieldName(super_initializeObject(c, the_key), the_key)

initializeObject(c, the_key) == StampFieldName(super_initializeObject(c, the_key), the_key)

(* what initializeObject hands back to its caller (it has no return        *)
(* statement), and the entry from_list was at when it ended ("" at the end *)
(* of the list)                                                            *)
initializeObject_result == None

(* DADict.__getitem__ with object_type set (init): a missing key is        *)
(* created through initializeObject, an existing one is returned as is.    *)
getitem_with_default_trigger(c, k) == IF HasKey(c, k) THEN c ELSE SetItem(c, k, [field_name |-> k, overflow_trigger |-> 1])

getitem(c, k) == IF HasKey(c, k) THEN c ELSE initializeObject(c, k)

RECURSIVE from_list_loop(_, _, _)
from_list_loop(c, data, i) ==
  IF i > Len(data) THEN [c |-> c, at |-> "", ret |-> None]
  ELSE LET c1 == initializeObject(c, data[i].field_name)
           new_field == initializeObject_result
       IN IF new_field = None
          THEN [c |-> c1, at |-> data[i].field_name, ret |-> Error("AttributeError")]
          ELSE from_list_loop(SetItem(c1, data[i].field_name, [field_name |-> data[i].field_name, overflow_trigger |-> data[i].overflow_trigger]), data, i + 1)

from_list(c, data) == from_list_loop(c, data, 1)

IsOverflowing(field) == defined(field.field_name) /\ len(overflow_value(field)) > 0

IsDefinedField(field) == defined(field.field_name)

FieldRaises(field) == defined(field.field_name) /\ IsError(overflow_value(field))

defined_fields_ignores_style(c, style) == Ok(SelectSeq(ObjectsOf(c), IsDefinedField))

defined_fields(c, style) ==
  IF style = "overflow_only"
  THEN IF \E i \in 1..Len(c) : FieldRaises(c[i].obj)
       THEN Raise("AttributeError")
       ELSE Ok(SelectSeq(ObjectsOf(c), IsOverflowing))
  ELSE Ok(SelectSeq(ObjectsOf(c), IsDefinedField))

overflow(c) == defined_fields(c, "overflow_only")

-----------------------------------------------------------------------------
(* ALDocument *)

Rendition(d, key) == [doc |-> d, part |-> key]

addendum(d) == [doc |-> d, part |-> "addendum"]

default_overflow_message(d) == Str(<<>>)

ALDocument_overflow(d) == overflow(overflow_fields[d])

has_overflow(d) == [exc |-> ALDocument_overflow(d).exc, val |-> Len(ALDocument_overflow(d).items) > 0]

as_list_ignores_has_addendum(d, key) ==
  IF has_overflow(d).exc # "" THEN Raise(has_overflow(d).exc)
  ELSE IF has_overflow(d).val
       THEN Ok(<<Rendition(d, key), addendum(d)>>)
       ELSE Ok(<<Rendition(d, key)>>)

as_list(d, key) ==
  IF has_addendum[d]
  THEN IF has_overflow(d).exc # "" THEN Raise(has_overflow(d).exc)
       ELSE IF has_overflow(d).val
            THEN Ok(<<Rendition(d, key), addendum(d)>>)
            ELSE Ok(<<Rendition(d, key)>>)
  ELSE Ok(<<Rendition(d, key)>>)

ALDocument_safe_value(d, field_name, overflow_message) ==
  LET msg == IF overflow_message = None THEN default_overflow_message(d) ELSE overflow_message
      c == getitem(overflow_fields[d], field_name)
  IN [c |-> c, ret |-> safe_value(GetItem(c, field_name), msg)]

-----------------------------------------------------------------------------
(* One document's set-up and use: the interview sets and unsets variables, *)
(* registers fields, and templates call safe_value.                        *)

NoCall == [op |-> "", doc |-> "", key |-> "", known |-> FALSE, ret |-> None]

FromListInputs == SeqsUpTo([field_name : Names, overflow_trigger : {1}], 2)

Init ==
  /\ store = [n \in Names |-> Unset]
  /\ has_addendum \in {h \in [Docs -> BOOLEAN] : \A d \in Docs \ SetupDocs : ~h[d]}
  /\ overflow_fields = [d \in Docs |-> <<>>]
  /\ enabled = [d \in Docs |-> TRUE]
  /\ children = [b \in Bundles |-> <<>>]
  /\ lastCall = NoCall
  /\ stack = <<>>
  /\ flat = NoFlat

SetVar(n, v) ==
  /\ store' = [store EXCEPT ![n] = v]
  /\ lastCall' = NoCall
  /\ UNCHANGED <<has_addendum, overflow_fields, enabled, children, stack, flat>>

UnsetVar(n) ==
  /\ store' = [store EXCEPT ![n] = Unset]
  /\ lastCall' = NoCall
  /\ UNCHANGED <<has_addendum, overflow_fields, enabled, children, stack, flat>>

(* d.overflow_fields.initializeObject(k) *)
InitializeObject(d, k) ==
  /\ overflow_fields' = [overflow_fields EXCEPT ![d] = initializeObject(@, k)]
  /\ lastCall' = [op |-> "initializeObject", doc |-> d, key |-> k, known |-> HasKey(overflow_fields[d], k), ret |-> initializeObject_result]
  /\ UNCHANGED <<store, has_addendum, enabled, children, stack, flat>>

(* d.overflow_fields[k].overflow_trigger = t *)
SetTrigger(d, k, t) ==
  /\ overflow_fields' = [overflow_fields EXCEPT ![d] = SetItem(getitem(@, k), k, [GetItem(getitem(@, k), k) EXCEPT !.overflow_trigger = t])]
  /\ lastCall' = NoCall
  /\ UNCHANGED <<store, has_addendum, enabled, children, stack, flat>>

(* d.overflow_fields.from_list(data) *)
FromList(d, data) ==
  /\ overflow_fields' = [overflow_fields EXCEPT ![d] = from_list(@, data).c]
  /\ lastCall' = [op |-> "from_list", doc |-> d, key |-> from_list(overflow_fields[d], data).at, known |-> FALSE, ret |-> from_list(overflow_fields[d], data).ret]
  /\ UNCHANGED <<store, has_addendum, enabled, children, stack, flat>>

(* d.safe_value(field_name, overflow_message) *)
SafeValueCall(d, field_name, overflow_message) ==
  /\ overflow_fields' = [overflow_fields EXCEPT ![d] = ALDocument_safe_value(d, field_name, overflow_message).c]
  /\ lastCall' = [op |-> "safe_value", doc |-> d, key |-> field_name, known |-> HasKey(overflow_fields[d], field_name), ret |-> ALDocument_safe_value(d, field_name, overflow_message).ret]
  /\ UNCHANGED <<store, has_addendum, enabled, children, stack, flat>>

Next ==
  \/ \E n \in Names : \E v \in VarValues(n) : SetVar(n, v)
  \/ \E n \in Names : UnsetVar(n)
  \/ \E d \in SetupDocs, k \in Names : InitializeObject(d, k)
  \/ \E d \in SetupDocs, k \in Names, t \in Triggers : SetTrigger(d, k, t)
  \/ \E d \in SetupDocs, data \in FromListInputs : FromList(d, data)
  \/ \E d \in SetupDocs, k \in Names, m \in Markers : SafeValueCall(d, k, m)

Spec == Init /\ [][Next]_vars

-----------------------------------------------------------------------------
(* ALDocumentBundle (a DAList): children[b] is the list of its elements,   *)
(* each a document or a bundle.                                            *)

filename(x) == x

(* docassemble.base.util.pdf_concatenate: one artifact out of the pages    *)
(* handed to it; it refuses an empty list.                                 *)
pdf_concatenate(pages, name) ==
  IF pages.exc # "" THEN Raise(pages.exc)
  ELSE IF pages.items = <<>> THEN Raise("DAError")
       ELSE Ok(<<[filename |-> name, pages |-> pages.items]>>)

ALDocument_as_pdf(d, key) == pdf_concatenate(as_list(d, key), filename(d))

(* document.as_list(key=key) on an ALDocumentBundle: the class defines     *)
(* as_flat_list, as_pdf, as_pdf_list, preview and as_html, and no as_list. *)
ALDocumentBundle_as_list(b, key) == Raise("AttributeError")

RECURSIVE as_flat_list_loop(_, _, _, _)
as_flat_list_loop(b, key, i, flat_list) ==
  IF i > Len(children[b]) THEN Ok(flat_list)
  ELSE LET document == children[b][i]
       IN IF document \in Bundles
          THEN IF ALDocumentBundle_as_list(document, key).exc # ""
               THEN Raise(ALDocumentBundle_as_list(document, key).exc)
               ELSE as_flat_list_loop(b, key, i + 1, flat_list \o ALDocumentBundle_as_list(document, key).items)
          ELSE IF enabled[document]
               THEN IF as_list(document, key).exc # ""
                    THEN Raise(as_list(document, key).exc)
                    ELSE as_flat_list_loop(b, key, i + 1, flat_list \o as_list(document, key).items)
               ELSE as_flat_list_loop(b, key, i + 1, flat_list)

as_flat_list(b, key) == as_flat_list_loop(b, key, 1, <<>>)

ALDocumentBundle_as_pdf(b, key) == pdf_concatenate(as_flat_list(b, key), filename(b))

as_pdf(document, key) == IF document \in Bundles THEN ALDocumentBundle_as_pdf(document, key) ELSE ALDocument_as_pdf(document, key)

RECURSIVE as_pdf_list_loop(_, _, _, _)
as_pdf_list_loop(b, key, i, pdfs) ==
  IF i > Len(children[b]) THEN Ok(pdfs)
  ELSE IF as_pdf(children[b][i], key).exc # ""
       THEN Raise(as_pdf(children[b][i], key).exc)
       ELSE as_pdf_list_loop(b, key, i + 1, pdfs \o as_pdf(children[b][i], key).items)

as_pdf_list(b, key) == as_pdf_list_loop(b, key, 1, <<>>)

(* as_flat_list run one step at a time. A frame is one activation of       *)
(* as_flat_list: its bundle, the index of the element the loop is at, and  *)
(* flat_list so far. A step returns the stack after it and, once the       *)
(* outermost activation has ended, the outcome.                            *)
Frame(b, key) == [bundle |-> b, key |-> key, i |-> 1, flat_list |-> <<>>]

Running(stk) == [stack |-> stk, exc |-> "", items |-> <<>>]

Ended(exc, items) == [stack |-> <<>>, exc |-> exc, items |-> items]

Top(stk) == stk[Len(stk)]

Extend(stk, items) == [stk EXCEPT ![Len(stk)] = [@ EXCEPT !.i = @ + 1, !.flat_list = @ \o items]]

Pop(stk) == SubSeq(stk, 1, Len(stk) - 1)

(* The element at hand is a bundle. Were its as_list the bundle's own      *)
(* as_flat_list, the call would open a new activation:                     *)
enter_as_flat_list(stk, document) == IF Len(stk) < MaxDepth THEN Running(Append(stk, Frame(document, Top(stk).key))) ELSE Running(stk)

(* document.as_list(key=key) raises, and the exception leaves every        *)
(* activation:                                                             *)
call_as_list_on_bundle(stk, document) == Ended(ALDocumentBundle_as_list(document, Top(stk).key).exc, <<>>)

as_flat_list_step(stk) ==
  LET top == Top(stk)
  IN IF top.i > Len(children[top.bundle])
     THEN IF Len(stk) = 1 THEN Ended("", top.flat_list) ELSE Running(Extend(Pop(stk), top.flat_list))
     ELSE LET document == children[top.bundle][top.i]
          IN IF document \in Bundles
             THEN call_as_list_on_bundle(stk, document)
             ELSE IF enabled[document]
                  THEN IF as_list(document, top.key).exc # ""
                       THEN Ended(as_list(document, top.key).exc, <<>>)
                       ELSE Running(Extend(stk, as_list(document, top.key).items))
                  ELSE Running(Extend(stk, <<>>))

-----------------------------------------------------------------------------
(* Bundles being put together and flattened. Documents d1 (with an         *)
(* addendum and an overflowing field) and d2 (without) are set up; bundle  *)
(* b3 is constructed holding d1.                                           *)

BundleInit ==
  /\ store = [n \in Names |-> IF n = "name" THEN Str(<<"a", "b">>) ELSE Unset]
  /\ has_addendum = [d \in Docs |-> d = "d1"]
  /\ overflow_fields = [d \in Docs |-> IF d = "d1" THEN <<[key |-> "name", obj |-> [field_name |-> "name", overflow_trigger |-> 1]]>> ELSE <<>>]
  /\ enabled = [d \in Docs |-> TRUE]
  /\ children = [b \in Bundles |-> IF b = "b3" THEN <<"d1">> ELSE <<>>]
  /\ lastCall = NoCall
  /\ stack = <<>>
  /\ flat = NoFlat

Appended == Len(children["b1"]) + Len(children["b2"]) + Len(children["b3"]) - 1

(* b.append(item) *)
AppendChild(b, item) ==
  /\ stack = <<>>
  /\ Appended < MaxAppends
  /\ children' = [children EXCEPT ![b] = Append(@, item)]
  /\ flat' = NoFlat
  /\ UNCHANGED <<store, has_addendum, overflow_fields, enabled, lastCall, stack>>

(* d.enabled = v *)
SetEnabled(d, v) ==
  /\ stack = <<>>
  /\ enabled' = [enabled EXCEPT ![d] = v]
  /\ flat' = NoFlat
  /\ UNCHANGED <<store, has_addendum, overflow_fields, children, lastCall, stack>>

(* b.as_flat_list(key) is called *)
Flatten(b, key) ==
  /\ stack = <<>>
  /\ stack' = <<Frame(b, key)>>
  /\ flat' = [bundle |-> b, key |-> key, exc |-> "", items |-> <<>>]
  /\ UNCHANGED <<store, has_addendum, overflow_fields, enabled, children, lastCall>>

(* the running as_flat_list takes its next step *)
FlattenStep ==
  /\ stack # <<>>
  /\ stack' = as_flat_list_step(stack).stack
  /\ flat' = [flat EXCEPT !.exc = as_flat_list_step(stack).exc, !.items = as_flat_list_step(stack).items]
  /\ UNCHANGED <<store, has_addendum, overflow_fields, enabled, children, lastCall>>

BundleNext ==
  \/ \E b \in Bundles, item \in Docs \cup Bundles : AppendChild(b, item)
  \/ \E d \in Docs, v \in BOOLEAN : SetEnabled(d, v)
  \/ \E b \in Bundles, key \in Keys : Flatten(b, key)
  \/ FlattenStep

BundleSpec == BundleInit /\ [][BundleNext]_vars

(* as_flat_list is a synchronous call: once entered it runs on *)
FairBundleSpec == BundleSpec /\ WF_vars(FlattenStep)

-----------------------------------------------------------------------------
(* The properties checked, stated without the operators that compute them *)

Complete(c) == \A i \in 1..Len(c) : HasTrigger(c[i].obj)

RegisteredFields == UNION {{overflow_fields[d][i].obj : i \in 1..Len(overflow_fields[d])} : d \in Docs}

CompleteFields == {f \in RegisteredFields : HasTrigger(f)}

StoredLen(name) == IF store[name].kind = "unset" THEN 0 ELSE Len(store[name].data)

StoredData(name) == IF store[name].kind = "unset" THEN <<>> ELSE store[name].data

StoredKind(name) == IF store[name].kind = "unset" THEN "str" ELSE store[name].kind

(* the positions of the entries whose variable is set and longer than the trigger *)
OverflowingAt(c) == {i \in 1..Len(c) : store[c[i].obj.field_name].kind # "unset" /\ Len(store[c[i].obj.field_name].data) > c[i].obj.overflow_trigger}

(* the positions of the entries that have no trigger while their variable is set *)
BrokenAt(c) == {i \in 1..Len(c) : ~HasTrigger(c[i].obj) /\ store[c[i].obj.field_name].kind # "unset"}

NthOf(E, j) == CHOOSE i \in E : Cardinality({k \in E : k < i}) = j - 1

(* C7: for every Field with a trigger, string- or list-valued, set or      *)
(* unset, overflow_value() is non-empty iff the full value is longer than  *)
(* overflow_trigger, and when non-empty it is the full value from position *)
(* overflow_trigger on.                                                    *)
C7_OverflowValueIffLonger ==
  \A f \in CompleteFields :
    LET o == overflow_value(f)
        n == f.field_name
        t == f.overflow_trigger
    IN /\ o.kind \in {"str", "list"}
       /\ (Len(o.data) > 0) <=> (StoredLen(n) > t)
       /\ Len(o.data) > 0 =>
            /\ o.kind = StoredKind(n)
            /\ Len(o.data) = StoredLen(n) - t
            /\ \A j \in 1..Len(o.data) : o.data[j] = StoredData(n)[t + j]

C7_Witness ==
  \E f \in CompleteFields : /\ store[f.field_name].kind = "list"
                            /\ Len(store[f.field_name].data) = f.overflow_trigger + 1
                            /\ overflow_value(f) = Lst(<<store[f.field_name].data[f.overflow_trigger + 1]>>)

(* C6: for every Field with a trigger whose value is a string (an unset    *)
(* variable counts as the empty string), safe_value("") followed by        *)
(* overflow_value() is full_value(), and so the lengths add up.            *)
C6_SafePlusOverflowIsFull ==
  \A f \in CompleteFields :
    StoredKind(f.field_name) = "str" =>
      /\ safe_value(f, Str(<<>>)).kind = "str"
      /\ overflow_value(f).kind = "str"
      /\ safe_value(f, Str(<<>>)).data \o overflow_value(f).data = StoredData(f.field_name)
      /\ full_value(f) = Str(StoredData(f.field_name))
      /\ Len(safe_value(f, Str(<<>>)).data) + Len(overflow_value(f).data) = Len(full_value(f).data)

C6_Witness ==
  \E f \in CompleteFields : /\ store[f.field_name].kind = "str"
                            /\ Len(store[f.field_name].data) > f.overflow_trigger
                            /\ Len(safe_value(f, Str(<<>>)).data) = f.overflow_trigger
                            /\ Len(overflow_value(f).data) > 0

(* C5: for every Field with a trigger and every marker, safe_value(marker) *)
(* never fails; when the value is longer than the trigger it is the first  *)
(* overflow_trigger positions of the value, followed by the marker for a   *)
(* string and by nothing for a list; otherwise it is the value itself ("" *)
(* for an unset variable). With trigger 5 and value "Alexandria",          *)
(* Document.safe_value("name", "...") is "Alexa...".                       *)
C5_SafeValue ==
  /\ \A f \in CompleteFields : \A m \in {Str(<<>>), Str(Ellipsis)} :
       LET r == safe_value(f, m)
           n == f.field_name
           t == f.overflow_trigger
       IN /\ ~IsError(r)
          /\ r.kind = StoredKind(n)
          /\ IF StoredLen(n) > t
             THEN /\ \A j \in 1..t : r.data[j] = StoredData(n)[j]
                  /\ IF StoredKind(n) = "str"
                     THEN /\ Len(r.data) = t + Len(m.data)
                          /\ \A j \in 1..Len(m.data) : r.data[t + j] = m.data[j]
                     ELSE Len(r.data) = t
             ELSE r.data = StoredData(n)
  /\ \A d \in Docs :
       (/\ HasKey(overflow_fields[d], "name")
        /\ GetItem(overflow_fields[d], "name") = [field_name |-> "name", overflow_trigger |-> 5]
        /\ store["name"] = Str(Alexandria))
       => ALDocument_safe_value(d, "name", Str(Ellipsis)).ret = Str(<<"A", "l", "e", "x", "a", "...">>)

C5_Witness ==
  /\ store["name"] = Str(Alexandria)
  /\ lastCall.op = "safe_value"
  /\ lastCall.key = "name"
  /\ lastCall.ret = Str(<<"A", "l", "e", "x", "a", "...">>)

(* C4: for every Field Collection whose Fields all have their trigger and  *)
(* every state of the store, overflow() returns exactly the registered     *)
(* Fields whose variable is set and longer than the trigger, in            *)
(* registration order; a Field whose variable is unset is never returned.  *)
(* (overflow() raises exactly when a Field without overflow_trigger has    *)
(* its variable set.)                                                      *)
C4_OverflowInRegistrationOrder ==
  \A d \in Docs :
    LET c == overflow_fields[d]
        r == overflow(c)
    IN /\ (r.exc # "") <=> (BrokenAt(c) # {})
       /\ Complete(c) =>
            /\ r.exc = ""
            /\ Len(r.items) = Cardinality(OverflowingAt(c))
            /\ \A j \in 1..Len(r.items) : r.items[j] = c[NthOf(OverflowingAt(c), j)].obj
            /\ \A j \in 1..Len(r.items) : store[r.items[j].field_name].kind # "unset"

C4_Witness ==
  \E d \in Docs :
    /\ Len(overflow_fields[d]) = 2
    /\ Complete(overflow_fields[d])
    /\ KeysOf(overflow_fields[d]) = <<"notes", "name">>
    /\ overflow(overflow_fields[d]) = Ok(<<GetItem(overflow_fields[d], "notes"), GetItem(overflow_fields[d], "name")>>)

(* C2: in every state, for key final or preview, as_list(key) of a         *)
(* Document whose Fields all have their trigger is [rendition at key,      *)
(* addendum] exactly when has_addendum is true and some registered Field's *)
(* variable is currently set and longer than its trigger, and otherwise    *)
(* [rendition at key]; a Document with has_addendum false returns the      *)
(* singleton whatever the fields hold. (as_list raises exactly when        *)
(* has_addendum is true and a Field without overflow_trigger has its       *)
(* variable set.)                                                          *)
C2_AsListFollowsStore ==
  \A d \in Docs : \A key \in Keys :
    LET c == overflow_fields[d]
        r == as_list(d, key)
    IN /\ (r.exc # "") <=> (has_addendum[d] /\ BrokenAt(c) # {})
       /\ r.exc = "" =>
            IF has_addendum[d] /\ OverflowingAt(c) # {}
            THEN r.items = <<[doc |-> d, part |-> key], [doc |-> d, part |-> "addendum"]>>
            ELSE r.items = <<[doc |-> d, part |-> key]>>

C2_Witness ==
  \E d \in Docs :
    /\ has_addendum[d]
    /\ Complete(overflow_fields[d])
    /\ Len(overflow_fields[d]) = 2
    /\ Cardinality(OverflowingAt(overflow_fields[d])) = 1
    /\ as_list(d, "preview") = Ok(<<[doc |-> d, part |-> "preview"], [doc |-> d, part |-> "addendum"]>>)

(* C8 as claimed: safe_value with a field_name that is not registered      *)
(* fails with a lookup error and leaves the collection as it was.          *)
CallOnUnregistered == lastCall'.op = "safe_value" /\ ~HasKey(overflow_fields[lastCall'.doc], lastCall'.key)

C8_UnregisteredNameLeavesCollection ==
  [][CallOnUnregistered => (lastCall'.ret = Error("LookupError") /\ overflow_fields' = overflow_fields)]_vars

(* C8 amended: safe_value with a field_name that is not registered fails,  *)
(* with the error of the new Field's missing overflow_trigger, and never   *)
(* returns a value; it registers a Field under that name at the end of the *)
(* collection, field_name set and no overflow_trigger.                     *)
C8_UnregisteredNameIsRegisteredAndFails ==
  [][CallOnUnregistered =>
       /\ lastCall'.ret = Error("AttributeError")
       /\ overflow_fields' = [overflow_fields EXCEPT ![lastCall'.doc] = Append(@, [key |-> lastCall'.key, obj |-> [field_name |-> lastCall'.key, overflow_trigger |-> NoTrigger]])]]_vars

C8_Witness ==
  /\ lastCall.op = "safe_value"
  /\ ~lastCall.known
  /\ IsError(lastCall.ret)
  /\ HasKey(overflow_fields[lastCall.doc], lastCall.key)
  /\ Len(overflow_fields[lastCall.doc]) = 2

(* C9 as claimed: registering a name that is already registered is         *)
(* reported as an error and does not replace the Field registered first.   *)
RegisterAgain == lastCall'.op = "initializeObject" /\ HasKey(overflow_fields[lastCall'.doc], lastCall'.key)

KeysBound ==
  \A d \in Docs : \A i \in 1..Len(overflow_fields[d]) :
    /\ overflow_fields[d][i].obj.field_name = overflow_fields[d][i].key
    /\ \A j \in 1..Len(overflow_fields[d]) : overflow_fields[d][j].key = overflow_fields[d][i].key => j = i

Replaced(c, k) == [i \in 1..Len(c) |-> IF c[i].key = k THEN [key |-> k, obj |-> [field_name |-> k, overflow_trigger |-> NoTrigger]] ELSE c[i]]

Registered(c, k) == IF \E i \in 1..Len(c) : c[i].key = k THEN Replaced(c, k) ELSE Append(c, [key |-> k, obj |-> [field_name |-> k, overflow_trigger |-> NoTrigger]])

-----------------------------------------------------------------------------

ChildBundles(b) == {children[b][i] : i \in 1..Len(children[b])} \cap Bundles

RECURSIVE Within(_, _)
Within(S, n) == IF n = 0 THEN S ELSE Within(S \cup UNION {ChildBundles(x) : x \in S}, n - 1)

(* the bundles inside b, at any depth *)
Descendants(b) == Within(ChildBundles(b), Cardinality(Bundles))

Acyclic(b) == \A x \in {b} \cup Descendants(b) : x \notin Descendants(x)

(* the renditions of the enabled documents of b, nested bundles expanded in place *)
RECURSIVE ExpectedFlat(_, _, _)
ExpectedFlat(b, key, i) ==
  IF i > Len(children[b]) THEN <<>>
  ELSE (IF children[b][i] \in Bundles THEN ExpectedFlat(children[b][i], key, 1)
        ELSE IF enabled[children[b][i]] THEN as_list(children[b][i], key).items
        ELSE <<>>) \o ExpectedFlat(b, key, i + 1)

(* C1: for every Bundle (without cycles) and key, as_flat_list(key) is the *)
(* concatenation, in declared order and with nested bundles expanded in    *)
(* place, of as_list(key) of the enabled Documents.                        *)
C1_FlattenIsConcatenation ==
  \A b \in Bundles : \A key \in Keys :
    Acyclic(b) => as_flat_list(b, key) = Ok(ExpectedFlat(b, key, 1))

(* C3: for every Bundle and key, as_pdf_list(key) returns one artifact per *)
(* direct child, however deep the children nest and whatever their enabled *)
(* flags; stated for bundles without cycles whose child bundles hold an    *)
(* enabled Document, so that no child is an empty concatenation.           *)
C3_OnePdfPerChild ==
  \A b \in Bundles : \A key \in Keys :
    (Acyclic(b) /\ \A x \in ChildBundles(b) : ExpectedFlat(x, key, 1) # <<>>)
      => (as_pdf_list(b, key).exc = "" /\ Len(as_pdf_list(b, key).items) = Len(children[b]))

FlatAgrees == (stack = <<>> /\ flat.bundle \in Bundles) => as_flat_list(flat.bundle, flat.key) = [exc |-> flat.exc, items |-> flat.items]

====
